---- MODULE Spec2Model ----
(***************************************************************************)
(* MinerU_GUI.py: the Tk form (MinerUGUI), its background job thread       *)
(* (process_pdf.process) and the orchestrator it calls (pdf_parse_main).   *)
(*                                                                         *)
(* Text of an entry field is a sequence of one-character strings.  A file  *)
(* system path is a sequence of components, a component a sequence of its  *)
(* dot-separated pieces: "/out/report.pdf" is << <<"out">>,                *)
(* <<"report","pdf">> >>, and the empty string is << >>.  An optional      *)
(* integer (None or an int) is << >> or <<n>>.                             *)
(***************************************************************************)
EXTENDS Integers, Sequences, FiniteSets, TLC

VARIABLES
    input_path,   \* self.input_path   (StringVar)
    output_path,  \* self.output_path  (StringVar)
    method,       \* self.method       (StringVar behind the read-only combobox)
    start_page,   \* self.start_page   (StringVar)
    end_page,     \* self.end_page     (StringVar)
    status,       \* self.status       (StringVar shown in the status area)
    progress,     \* whether self.progress (the indeterminate bar) is running
    processing,   \* self.processing, the in-flight flag
    dialog,       \* the modal message box the main thread is blocked in, or "none"
    destroyed,    \* whether self.root.destroy() has run
    threads       \* the execution contexts running process() / pdf_parse_main

vars == <<input_path, output_path, method, start_page, end_page, status,
          progress, processing, dialog, destroyed, threads>>

form == <<input_path, output_path, method, start_page, end_page>>

\* Number of thread slots of the model: the code itself puts no limit on
\* threading.Thread objects.
MaxThreads == 2

Threads == 1..MaxThreads

-----------------------------------------------------------------------------
\* Values the user can put into the form.

NoText == << >>

ReportPdf == << <<"out">>, <<"report", "pdf">> >>
NotesPdf == << <<"in">>, <<"notes", "v2", "pdf">> >>
OutDir == << <<"out">> >>

InputPaths == {NoText, ReportPdf}
OutputPaths == {NoText, OutDir}
Methods == {"auto", "ocr", "txt"}
StartTexts == {NoText, <<"0">>, <<"5">>, <<"x">>}
EndTexts == {NoText, <<"0">>, <<"2">>, <<"-", "1">>}

\* Texts the page-range fields are validated on.
PageTexts ==
    {NoText, <<"0">>, <<"2">>, <<"5">>, <<"1", "0">>, <<"x">>, <<"-", "1">>,
     <<"-", "0">>, <<"+", "2">>, <<" ", "5", " ">>, <<" ">>, <<"-">>, <<"2", "x">>,
     <<"2", ".", "5">>}

\* Arguments a direct caller of pdf_parse_main can pass.
CallPdfPaths == {NoText, ReportPdf, NotesPdf}
CallMethods == Methods \cup {"bogus", "text"}
CallOutputDirs == {NoText, OutDir}

-----------------------------------------------------------------------------
\* int(str): surrounding blanks are stripped, one sign is allowed, and the rest
\* must be decimal digits; anything else raises ValueError.

Digits == <<"0", "1", "2", "3", "4", "5", "6", "7", "8", "9">>

DigitSet == {Digits[k] : k \in DOMAIN Digits}

DigitVal(c) == (CHOOSE k \in DOMAIN Digits : Digits[k] = c) - 1

RECURSIVE LStrip(_)
LStrip(s) == IF s # << >> /\ Head(s) = " " THEN LStrip(Tail(s)) ELSE s

RECURSIVE RStrip(_)
RStrip(s) ==
    IF s # << >> /\ s[Len(s)] = " " THEN RStrip(SubSeq(s, 1, Len(s) - 1)) ELSE s

Strip(s) == RStrip(LStrip(s))

Signed(s) == s # << >> /\ Head(s) \in {"-", "+"}

Magnitude(s) == IF Signed(Strip(s)) THEN Tail(Strip(s)) ELSE Strip(s)

RECURSIVE DecimalVal(_)
DecimalVal(s) ==
    IF s = << >> THEN 0
    ELSE 10 * DecimalVal(SubSeq(s, 1, Len(s) - 1)) + DigitVal(s[Len(s)])

\* int(s) returns (TRUE) or raises ValueError (FALSE).
PyIntOk(s) ==
    /\ Magnitude(s) # << >>
    /\ \A k \in DOMAIN Magnitude(s) : Magnitude(s)[k] \in DigitSet

\* The value int(s) returns when it returns.
PyIntVal(s) ==
    IF Signed(Strip(s)) /\ Head(Strip(s)) = "-"
    THEN 0 - DecimalVal(Magnitude(s))
    ELSE DecimalVal(Magnitude(s))

-----------------------------------------------------------------------------
\* os.path and the file names pdf_parse_main builds.

\* os.path.basename(p), as its dot-separated pieces ("".split(".") is [""]).
Basename(p) == IF p = << >> THEN <<"">> ELSE p[Len(p)]

\* os.path.dirname(p)
Dirname(p) == IF p = << >> THEN << >> ELSE SubSeq(p, 1, Len(p) - 1)

\* os.path.basename(pdf_path).split(".")[0]
PdfName(pdf_path) == Basename(pdf_path)[1]

\* os.path.join(dir, name) for a name without dots
Join(dir, name) == Append(dir, <<name>>)

\* output_path of lines 29-32
ResolveOutputPath(pdf_path, output_dir) ==
    IF output_dir # << >>
    THEN Join(output_dir, PdfName(pdf_path))
    ELSE Join(Dirname(pdf_path), PdfName(pdf_path))

\* output_image_path of line 34
ImagePath(out) == Join(out, "images")

\* f"{pdf_name}_content.json" under the md_writer's directory
JsonFile(out, pdf_name) == Append(out, <<pdf_name \o "_content", "json">>)

\* f"{pdf_name}.md" under the md_writer's directory
MdFile(out, pdf_name) == Append(out, <<pdf_name, "md">>)

-----------------------------------------------------------------------------
\* Message texts.

MsgNoInput == "Please select an input PDF file."
MsgNoOutput == "Please select an output directory."
MsgOrder == "End page must be greater than start page."
MsgNumbers == "Page numbers must be positive integers."
MsgQuit == "Processing is in progress. Do you want to quit anyway?"

ErrInvalidMethod == "Invalid parse method"
ErrInt == "invalid literal for int()"
ErrOS == "OSError"
ErrPipe == "pipeline error"

StatusReady == "Ready"
StatusProcessing == "Processing PDF..."
StatusComplete == "Processing complete!"
StatusError == "Error occurred!"

-----------------------------------------------------------------------------
\* validate_inputs: the text of the error box it shows, or "ok" when it
\* returns True.  A ValueError raised anywhere in the try block, by int() or by
\* the two explicit raises, lands in the except clause.

PageRaises(text) == text # << >> /\ (~PyIntOk(text) \/ PyIntVal(text) < 0)

\* validate_inputs without the comparison of start and end.
ValidateInputs_NoOrder(ip, op, sp, ep) ==
    IF ip = << >> THEN MsgNoInput
    ELSE IF op = << >> THEN MsgNoOutput
    ELSE IF PageRaises(sp) \/ PageRaises(ep) THEN MsgNumbers
    ELSE "ok"

ValidateInputs(ip, op, sp, ep) ==
    IF ip = << >> THEN MsgNoInput
    ELSE IF op = << >> THEN MsgNoOutput
    ELSE IF sp # << >> \/ ep # << >>
         THEN IF PageRaises(sp) THEN MsgNumbers
              ELSE IF PageRaises(ep) THEN MsgNumbers
              ELSE IF sp # << >> /\ ep # << >> /\ PyIntVal(sp) > PyIntVal(ep)
                   THEN MsgOrder
                   ELSE "ok"
         ELSE "ok"

-----------------------------------------------------------------------------
\* Execution contexts.

Stages == <<"classify", "analyze", "parse", "mk_uni_format", "mk_markdown">>

IdleThread ==
    [pc |-> "idle", caller |-> "gui",
     start |-> << >>, end |-> << >>,
     pdf_path |-> << >>, parse_method |-> "", output_dir |-> << >>,
     is_json_md_dump |-> TRUE,
     pdf_name |-> "", out |-> << >>, pipe |-> "none",
     io |-> << >>, stages |-> << >>, error |-> "none", result |-> "none"]

\* pc values inside pdf_parse_main
OrchPcs == {"makedirs", "read_pdf", "select_pipe", "classify", "analyze",
            "parse", "mk_uni_format", "dump_json", "mk_markdown", "write_md",
            "return"}

\* The context is running process() or pdf_parse_main.
Active(i) == threads[i].pc \notin {"idle", "done", "killed"}

Set(i, r) == threads' = [threads EXCEPT ![i] = r]

Goto(i, pc) == Set(i, [threads[i] EXCEPT !.pc = pc])

\* The Tk main loop is serving events: calls into Tk from the job thread are
\* carried out by it, and user events are delivered.
Alive == ~destroyed

UNCHANGED_FORM == UNCHANGED <<input_path, output_path, method, start_page, end_page>>

UNCHANGED_SHELL == UNCHANGED <<status, progress, processing, dialog, destroyed>>

\* self.root.destroy(): the widgets and the Tcl variables behind the StringVars
\* go with the root window, mainloop() returns and the program ends; its daemon
\* thread is abandoned where it stands.  self.processing is left as it was.
Destroy ==
    /\ threads' = [i \in Threads |->
                     IF Active(i) THEN [IdleThread EXCEPT !.pc = "killed"]
                     ELSE threads[i]]
    /\ destroyed' = TRUE
    /\ input_path' = NoText
    /\ output_path' = NoText
    /\ method' = ""
    /\ start_page' = NoText
    /\ end_page' = NoText
    /\ status' = ""
    /\ progress' = FALSE
    /\ dialog' = "none"

-----------------------------------------------------------------------------
Init ==
    /\ input_path = NoText
    /\ output_path = NoText
    /\ method = "auto"
    /\ start_page = NoText
    /\ end_page = NoText
    /\ status = StatusReady
    /\ progress = FALSE
    /\ processing = FALSE
    /\ dialog = "none"
    /\ destroyed = FALSE
    /\ threads = [i \in Threads |-> IdleThread]

\* A call of pdf_parse_main made directly, outside the form.
InitCall ==
    /\ input_path = NoText
    /\ output_path = NoText
    /\ method = "auto"
    /\ start_page = NoText
    /\ end_page = NoText
    /\ status = StatusReady
    /\ progress = FALSE
    /\ processing = FALSE
    /\ dialog = "none"
    /\ destroyed = FALSE
    /\ \E p \in CallPdfPaths, m \in CallMethods, o \in CallOutputDirs, d \in BOOLEAN :
         threads = [i \in Threads |->
                      IF i = 1
                      THEN [IdleThread EXCEPT !.pc = "makedirs", !.caller = "direct",
                                              !.pdf_path = p, !.parse_method = m,
                                              !.output_dir = o, !.is_json_md_dump = d]
                      ELSE IdleThread]

-----------------------------------------------------------------------------
\* The user at the form.  While a modal box of the main thread is open the
\* main window takes no input.

CanInteract == Alive /\ dialog = "none"

\* Typing into the "Input PDF" entry.
EditInputPath ==
    /\ CanInteract
    /\ \E v \in InputPaths : input_path' = v
    /\ UNCHANGED <<output_path, method, start_page, end_page>>
    /\ UNCHANGED_SHELL /\ UNCHANGED threads

browse_input ==
    /\ CanInteract
    /\ \E path \in InputPaths :
         IF path # << >>
         THEN /\ input_path' = path
              /\ output_path' = IF output_path = << >> THEN Dirname(path) ELSE output_path
         ELSE UNCHANGED <<input_path, output_path>>
    /\ UNCHANGED <<method, start_page, end_page>>
    /\ UNCHANGED_SHELL /\ UNCHANGED threads

\* Typing into the "Output Directory" entry.
EditOutputPath ==
    /\ CanInteract
    /\ \E v \in OutputPaths : output_path' = v
    /\ UNCHANGED <<input_path, method, start_page, end_page>>
    /\ UNCHANGED_SHELL /\ UNCHANGED threads

browse_output ==
    /\ CanInteract
    /\ \E path \in OutputPaths :
         IF path # << >> THEN output_path' = path ELSE UNCHANGED output_path
    /\ UNCHANGED <<input_path, method, start_page, end_page>>
    /\ UNCHANGED_SHELL /\ UNCHANGED threads

SelectMethod ==
    /\ CanInteract
    /\ \E m \in Methods : method' = m
    /\ UNCHANGED <<input_path, output_path, start_page, end_page>>
    /\ UNCHANGED_SHELL /\ UNCHANGED threads

EditStartPage ==
    /\ CanInteract
    /\ \E v \in StartTexts : start_page' = v
    /\ UNCHANGED <<input_path, output_path, method, end_page>>
    /\ UNCHANGED_SHELL /\ UNCHANGED threads

EditEndPage ==
    /\ CanInteract
    /\ \E v \in EndTexts : end_page' = v
    /\ UNCHANGED <<input_path, output_path, method, start_page>>
    /\ UNCHANGED_SHELL /\ UNCHANGED threads

\* The lowest free slot stands for the new Thread object.
FreeSlot == CHOOSE i \in Threads : threads[i].pc = "idle" /\ \A j \in 1..(i - 1) : threads[j].pc # "idle"

\* threading.Thread(target=process, daemon=True).start()
StartThread ==
    /\ \E i \in Threads : threads[i].pc = "idle"
    /\ Set(FreeSlot, [IdleThread EXCEPT !.pc = "set_status"])

\* process_pdf without the test of self.processing.
process_pdf_Unguarded ==
    /\ CanInteract
    /\ IF ValidateInputs(input_path, output_path, start_page, end_page) # "ok"
       THEN /\ dialog' = ValidateInputs(input_path, output_path, start_page, end_page)
            /\ UNCHANGED <<processing, threads>>
       ELSE /\ processing' = TRUE
            /\ StartThread
            /\ UNCHANGED dialog
    /\ UNCHANGED_FORM
    /\ UNCHANGED <<status, progress, destroyed>>

\* The "Process PDF" button.
process_pdf ==
    /\ CanInteract
    /\ IF ValidateInputs(input_path, output_path, start_page, end_page) # "ok"
       THEN /\ dialog' = ValidateInputs(input_path, output_path, start_page, end_page)
            /\ UNCHANGED <<processing, threads>>
       ELSE IF ~processing
            THEN /\ processing' = TRUE
                 /\ StartThread
                 /\ UNCHANGED dialog
            ELSE UNCHANGED <<processing, threads, dialog>>
    /\ UNCHANGED_FORM
    /\ UNCHANGED <<status, progress, destroyed>>

\* The user closes the error box of validate_inputs, which then returns False.
DismissValidationError ==
    /\ Alive
    /\ dialog \in {MsgNoInput, MsgNoOutput, MsgOrder, MsgNumbers}
    /\ dialog' = "none"
    /\ UNCHANGED_FORM
    /\ UNCHANGED <<status, progress, processing, destroyed, threads>>

\* on_closing without the test of self.processing.
on_closing_NoPrompt ==
    /\ CanInteract
    /\ Destroy
    /\ UNCHANGED processing

\* WM_DELETE_WINDOW
on_closing ==
    /\ CanInteract
    /\ IF processing
       THEN /\ dialog' = MsgQuit
            /\ UNCHANGED_FORM
            /\ UNCHANGED <<status, progress, destroyed, threads>>
       ELSE Destroy
    /\ UNCHANGED processing

\* The answer to askokcancel: OK destroys the root window, Cancel returns.
AnswerQuit ==
    /\ Alive
    /\ dialog = MsgQuit
    /\ \E ok \in BOOLEAN :
         IF ok
         THEN Destroy
         ELSE /\ dialog' = "none"
              /\ UNCHANGED_FORM
              /\ UNCHANGED <<status, progress, destroyed, threads>>
    /\ UNCHANGED processing

-----------------------------------------------------------------------------
\* process(), the target of the job thread, up to the call of pdf_parse_main.
\* Every access to a Tk variable or widget is a call into Tk of its own, so
\* the user's events interleave with them.

\* self.status.set("Processing PDF...")
T_SetStatus(i) ==
    /\ Alive /\ threads[i].pc = "set_status"
    /\ status' = StatusProcessing
    /\ Goto(i, "progress_start")
    /\ UNCHANGED_FORM
    /\ UNCHANGED <<progress, processing, dialog, destroyed>>

\* self.progress.start()
T_ProgressStart(i) ==
    /\ Alive /\ threads[i].pc = "progress_start"
    /\ progress' = TRUE
    /\ Goto(i, "start_cond")
    /\ UNCHANGED_FORM
    /\ UNCHANGED <<status, processing, dialog, destroyed>>

\* ... if self.start_page.get() else None
T_StartCond(i) ==
    /\ Alive /\ threads[i].pc = "start_cond"
    /\ IF start_page # << >>
       THEN Goto(i, "start_int")
       ELSE Set(i, [threads[i] EXCEPT !.start = << >>, !.pc = "end_cond"])
    /\ UNCHANGED_FORM /\ UNCHANGED_SHELL

\* int(self.start_page.get())
T_StartInt(i) ==
    /\ Alive /\ threads[i].pc = "start_int"
    /\ IF PyIntOk(start_page)
       THEN Set(i, [threads[i] EXCEPT !.start = <<PyIntVal(start_page)>>,
                                      !.pc = "end_cond"])
       ELSE Set(i, [threads[i] EXCEPT !.error = ErrInt, !.pc = "set_error"])
    /\ UNCHANGED_FORM /\ UNCHANGED_SHELL

\* ... if self.end_page.get() else None
T_EndCond(i) ==
    /\ Alive /\ threads[i].pc = "end_cond"
    /\ IF end_page # << >>
       THEN Goto(i, "end_int")
       ELSE Set(i, [threads[i] EXCEPT !.end = << >>, !.pc = "arg_pdf_path"])
    /\ UNCHANGED_FORM /\ UNCHANGED_SHELL

\* int(self.end_page.get())
T_EndInt(i) ==
    /\ Alive /\ threads[i].pc = "end_int"
    /\ IF PyIntOk(end_page)
       THEN Set(i, [threads[i] EXCEPT !.end = <<PyIntVal(end_page)>>,
                                      !.pc = "arg_pdf_path"])
       ELSE Set(i, [threads[i] EXCEPT !.error = ErrInt, !.pc = "set_error"])
    /\ UNCHANGED_FORM /\ UNCHANGED_SHELL

\* pdf_path=self.input_path.get().  The locals start_page and end_page are
\* final by now; nothing reads them again, pdf_parse_main included, and the
\* model follows them no further.
T_ArgPdfPath(i) ==
    /\ Alive /\ threads[i].pc = "arg_pdf_path"
    /\ Set(i, [threads[i] EXCEPT !.pdf_path = input_path,
                                 !.start = << >>, !.end = << >>,
                                 !.pc = "arg_method"])
    /\ UNCHANGED_FORM /\ UNCHANGED_SHELL

\* parse_method=self.method.get()
T_ArgMethod(i) ==
    /\ Alive /\ threads[i].pc = "arg_method"
    /\ Set(i, [threads[i] EXCEPT !.parse_method = method, !.pc = "arg_output_dir"])
    /\ UNCHANGED_FORM /\ UNCHANGED_SHELL

\* output_dir=self.output_path.get(), is_json_md_dump=True.  The lang and debug
\* arguments that follow are read from the form too; pdf_parse_main uses
\* neither, and they are left out.
T_ArgOutputDir(i) ==
    /\ Alive /\ threads[i].pc = "arg_output_dir"
    /\ Set(i, [threads[i] EXCEPT !.output_dir = output_path,
                                 !.is_json_md_dump = TRUE, !.pc = "invoke"])
    /\ UNCHANGED_FORM /\ UNCHANGED_SHELL

\* The call itself.
T_Invoke(i) ==
    /\ Alive /\ threads[i].pc = "invoke"
    /\ Goto(i, "makedirs")
    /\ UNCHANGED_FORM /\ UNCHANGED_SHELL

-----------------------------------------------------------------------------
\* pdf_parse_main.  Every call that touches the file system or the external
\* library either returns or raises.

\* Control leaves pdf_parse_main: its locals are gone, and so are the
\* arguments, which process() passed as temporaries; a direct caller still holds
\* what it passed.  What the call did (io, stages) and how it ended (error,
\* result) stay on record.
Leave(t, result, pc) ==
    IF t.caller = "gui"
    THEN [IdleThread EXCEPT !.io = t.io, !.stages = t.stages,
                            !.error = t.error, !.result = result, !.pc = pc]
    ELSE [t EXCEPT !.pdf_name = "", !.out = << >>, !.pipe = "none",
                   !.result = result, !.pc = pc]

\* Where control goes when the call ends.
AfterCall(t, gui_pc) == IF t.caller = "gui" THEN gui_pc ELSE "done"

\* An exception swallowed by the except clause: the call returns None.
Raise_Swallowed(i, err) ==
    Set(i, Leave([threads[i] EXCEPT !.error = err], "raised",
                 AfterCall(threads[i], "set_complete")))

\* An exception inside the try block: the except clause logs it and re-raises
\* it to the caller.
Raise(i, err) ==
    Set(i, Leave([threads[i] EXCEPT !.error = err], "raised",
                 AfterCall(threads[i], "set_error")))

\* A pipeline call whose failure is swallowed: the run goes on to the next call.
Stage_Swallow(i, name, next) ==
    \E ok \in BOOLEAN :
        Set(i, [threads[i] EXCEPT
                  !.stages = Append(@, [name |-> name, ok |-> ok]),
                  !.pc = next])

\* A pipeline call of the external library: logged in stages with its outcome.
Stage(i, name, next) ==
    \E ok \in BOOLEAN :
        IF ok
        THEN Set(i, [threads[i] EXCEPT
                       !.stages = Append(@, [name |-> name, ok |-> TRUE]),
                       !.pc = next])
        ELSE Set(i, Leave([threads[i] EXCEPT
                             !.stages = Append(@, [name |-> name, ok |-> FALSE]),
                             !.error = ErrPipe],
                          "raised", AfterCall(threads[i], "set_error")))

\* Lines 27-35: the names, then os.makedirs(output_image_path, exist_ok=True).
O_Makedirs(i) ==
    /\ Alive /\ threads[i].pc = "makedirs"
    /\ LET t == threads[i]
           name == PdfName(t.pdf_path)
           out == ResolveOutputPath(t.pdf_path, t.output_dir)
       IN \E ok \in BOOLEAN :
            IF ok
            THEN Set(i, [t EXCEPT !.pdf_name = name, !.out = out,
                                  !.io = Append(@, [op |-> "makedirs", path |-> ImagePath(out)]),
                                  !.pc = "read_pdf"])
            ELSE Raise(i, ErrOS)
    /\ UNCHANGED_FORM /\ UNCHANGED_SHELL

\* pdf_bytes = open(pdf_path, "rb").read(), then the two writers.  open("")
\* always raises.
O_ReadPdf(i) ==
    /\ Alive /\ threads[i].pc = "read_pdf"
    /\ \E ok \in BOOLEAN :
         IF ok /\ threads[i].pdf_path # << >>
         THEN Set(i, [threads[i] EXCEPT
                        !.io = Append(@, [op |-> "read", path |-> threads[i].pdf_path]),
                        !.pc = "select_pipe"])
         ELSE Raise(i, ErrOS)
    /\ UNCHANGED_FORM /\ UNCHANGED_SHELL

\* Lines 44-51.
O_SelectPipe(i) ==
    /\ Alive /\ threads[i].pc = "select_pipe"
    /\ LET m == threads[i].parse_method
       IN IF m = "auto" THEN Set(i, [threads[i] EXCEPT !.pipe = "UNIPipe", !.pc = "classify"])
          ELSE IF m = "txt" THEN Set(i, [threads[i] EXCEPT !.pipe = "TXTPipe", !.pc = "classify"])
          ELSE IF m = "ocr" THEN Set(i, [threads[i] EXCEPT !.pipe = "OCRPipe", !.pc = "classify"])
          ELSE Raise(i, ErrInvalidMethod)
    /\ UNCHANGED_FORM /\ UNCHANGED_SHELL

\* pipe.pipe_classify()
O_Classify(i) ==
    /\ Alive /\ threads[i].pc = "classify"
    /\ Stage(i, "classify", "analyze")
    /\ UNCHANGED_FORM /\ UNCHANGED_SHELL

\* pipe.pipe_analyze()
O_Analyze(i) ==
    /\ Alive /\ threads[i].pc = "analyze"
    /\ Stage(i, "analyze", "parse")
    /\ UNCHANGED_FORM /\ UNCHANGED_SHELL

\* pipe.pipe_parse()
O_Parse(i) ==
    /\ Alive /\ threads[i].pc = "parse"
    /\ Stage(i, "parse", "mk_uni_format")
    /\ UNCHANGED_FORM /\ UNCHANGED_SHELL

\* content_list = pipe.pipe_mk_uni_format(image_path_parent, drop_mode="none")
O_MkUniFormat(i) ==
    /\ Alive /\ threads[i].pc = "mk_uni_format"
    /\ Stage(i, "mk_uni_format", "dump_json")
    /\ UNCHANGED_FORM /\ UNCHANGED_SHELL

\* if is_json_md_dump: md_writer.write_string(f"{pdf_name}_content.json", ...)
O_DumpJson(i) ==
    /\ Alive /\ threads[i].pc = "dump_json"
    /\ LET t == threads[i]
       IN IF t.is_json_md_dump
          THEN \E ok \in BOOLEAN :
                 IF ok
                 THEN Set(i, [t EXCEPT
                                !.io = Append(@, [op |-> "write", path |-> JsonFile(t.out, t.pdf_name)]),
                                !.pc = "mk_markdown"])
                 ELSE Raise(i, ErrOS)
          ELSE Goto(i, "return")
    /\ UNCHANGED_FORM /\ UNCHANGED_SHELL

\* md_content = pipe.pipe_mk_markdown(image_path_parent, drop_mode="none")
O_MkMarkdown(i) ==
    /\ Alive /\ threads[i].pc = "mk_markdown"
    /\ Stage(i, "mk_markdown", "write_md")
    /\ UNCHANGED_FORM /\ UNCHANGED_SHELL

\* md_writer.write_string(f"{pdf_name}.md", md_content)
O_WriteMd(i) ==
    /\ Alive /\ threads[i].pc = "write_md"
    /\ LET t == threads[i]
       IN \E ok \in BOOLEAN :
            IF ok
            THEN Set(i, [t EXCEPT
                           !.io = Append(@, [op |-> "write", path |-> MdFile(t.out, t.pdf_name)]),
                           !.pc = "return"])
            ELSE Raise(i, ErrOS)
    /\ UNCHANGED_FORM /\ UNCHANGED_SHELL

\* return True
O_Return(i) ==
    /\ Alive /\ threads[i].pc = "return"
    /\ Set(i, Leave(threads[i], "returned", AfterCall(threads[i], "set_complete")))
    /\ UNCHANGED_FORM /\ UNCHANGED_SHELL

-----------------------------------------------------------------------------
\* process() after the call.

\* self.status.set("Processing complete!"), then messagebox.showinfo opens.
\* The record of what the finished call did ends here.
T_SetComplete(i) ==
    /\ Alive /\ threads[i].pc = "set_complete"
    /\ status' = StatusComplete
    /\ Set(i, [threads[i] EXCEPT !.io = << >>, !.stages = << >>, !.pc = "showinfo"])
    /\ UNCHANGED_FORM
    /\ UNCHANGED <<progress, processing, dialog, destroyed>>

\* The user closes the "Success" box.
T_DismissInfo(i) ==
    /\ Alive /\ threads[i].pc = "showinfo"
    /\ Goto(i, "progress_stop")
    /\ UNCHANGED_FORM /\ UNCHANGED_SHELL

\* except Exception as e: self.status.set("Error occurred!"), then
\* messagebox.showerror("Error", str(e)) opens.
T_SetError(i) ==
    /\ Alive /\ threads[i].pc = "set_error"
    /\ status' = StatusError
    /\ Set(i, [threads[i] EXCEPT !.io = << >>, !.stages = << >>, !.pc = "showerror"])
    /\ UNCHANGED_FORM
    /\ UNCHANGED <<progress, processing, dialog, destroyed>>

\* The user closes the "Error" box; logger.exception follows.
T_DismissError(i) ==
    /\ Alive /\ threads[i].pc = "showerror"
    /\ Goto(i, "progress_stop")
    /\ UNCHANGED_FORM /\ UNCHANGED_SHELL

\* finally: self.progress.stop()
T_ProgressStop(i) ==
    /\ Alive /\ threads[i].pc = "progress_stop"
    /\ progress' = FALSE
    /\ Goto(i, "clear")
    /\ UNCHANGED_FORM
    /\ UNCHANGED <<status, processing, dialog, destroyed>>

\* The thread ending without self.processing = False.
T_ClearProcessing_Missing(i) ==
    /\ Alive /\ threads[i].pc = "clear"
    /\ Set(i, IdleThread)
    /\ UNCHANGED_FORM /\ UNCHANGED_SHELL

\* finally: self.processing = False, and the thread ends.
T_ClearProcessing(i) ==
    /\ Alive /\ threads[i].pc = "clear"
    /\ processing' = FALSE
    /\ Set(i, IdleThread)
    /\ UNCHANGED_FORM
    /\ UNCHANGED <<status, progress, dialog, destroyed>>

-----------------------------------------------------------------------------
User ==
    \/ EditInputPath \/ browse_input \/ EditOutputPath \/ browse_output
    \/ SelectMethod \/ EditStartPage \/ EditEndPage
    \/ process_pdf \/ DismissValidationError \/ on_closing \/ AnswerQuit

Orchestrator(i) ==
    \/ O_Makedirs(i) \/ O_ReadPdf(i) \/ O_SelectPipe(i)
    \/ O_Classify(i) \/ O_Analyze(i) \/ O_Parse(i) \/ O_MkUniFormat(i)
    \/ O_DumpJson(i) \/ O_MkMarkdown(i) \/ O_WriteMd(i)
    \/ O_Return(i)

Job(i) ==
    \/ T_SetStatus(i) \/ T_ProgressStart(i)
    \/ T_StartCond(i) \/ T_StartInt(i) \/ T_EndCond(i) \/ T_EndInt(i)
    \/ T_ArgPdfPath(i) \/ T_ArgMethod(i) \/ T_ArgOutputDir(i) \/ T_Invoke(i)
    \/ Orchestrator(i)
    \/ T_SetComplete(i) \/ T_SetError(i)
    \/ T_ProgressStop(i) \/ T_ClearProcessing(i)

\* The user closing the boxes the job thread opened.
Dismiss(i) == T_DismissInfo(i) \/ T_DismissError(i)

Next == User \/ \E i \in Threads : Job(i) \/ Dismiss(i)

\* The form with its job thread.
Spec == Init /\ [][Next]_vars

\* The form when every call of the job thread returns and the user closes the
\* boxes the job thread opens.
FairSpec == Spec /\ WF_vars(\E i \in Threads : Job(i) \/ Dismiss(i))

NextCall == \E i \in Threads : Orchestrator(i)

\* One direct call of pdf_parse_main.
CallSpec == InitCall /\ [][NextCall]_vars

-----------------------------------------------------------------------------
\* Vocabulary of the properties.

ActiveThreads == {i \in Threads : Active(i)}

\* A step in which a job thread is started.
ThreadStarted ==
    \E i \in Threads : ~Active(i) /\ threads'[i].pc \notin {"idle", "done", "killed"}

\* int(text) returns a value >= 0.
NonNegative(text) == PyIntOk(text) /\ PyIntVal(text) >= 0

\* The paths a run wrote whose file name ends in .ext
Written(t, ext) ==
    SelectSeq(t.io, LAMBDA e : e.op = "write" /\ e.path[Len(e.path)][Len(e.path[Len(e.path)])] = ext)

Writes(t) == SelectSeq(t.io, LAMBDA e : e.op = "write")

\* <output_dir>/<doc_name>, the source's directory standing in for an
\* output directory that is not given.
DocDir(t) ==
    Append(IF t.output_dir # << >> THEN t.output_dir ELSE Dirname(t.pdf_path),
           <<Basename(t.pdf_path)[1]>>)

\* path names a file directly inside dir.
Under(path, dir) == Len(path) = Len(dir) + 1 /\ SubSeq(path, 1, Len(dir)) = dir

ValidationMsgs == {MsgNoInput, MsgNoOutput, MsgOrder, MsgNumbers}

-----------------------------------------------------------------------------
\* C1: at most one background job is active at any time; while the in-flight
\* flag is set no step starts a job thread (a Process click then changes
\* nothing), and a thread starts only in a step that finds the flag clear and
\* sets it, so no click is queued for later.
C1_OneJobState ==
    /\ Cardinality(ActiveThreads) <= 1
    /\ (ActiveThreads # {} => processing)

\* C1: C1_OneJobState in every state, no thread started while the flag is set,
\* and every thread start finds the flag clear and sets it.
C1_OneJob ==
    /\ []C1_OneJobState
    /\ [][processing => ~ThreadStarted]_vars
    /\ [][ThreadStarted => ~processing /\ processing']_vars

\* A valid Process click is possible while a job is running.
C1_Witness ==
    /\ processing /\ CanInteract
    /\ ValidateInputs(input_path, output_path, start_page, end_page) = "ok"
    /\ \E i \in Threads : threads[i].pc = "classify"

-----------------------------------------------------------------------------
\* C2: when pdf_parse_main is given a method that is none of the three, the
\* invalid-argument error is raised before any file I/O: no directory created,
\* the source not read, no file written.
C2_InvalidMethodBeforeIO ==
    \A i \in Threads :
        threads[i].error = ErrInvalidMethod => threads[i].io = << >>

-----------------------------------------------------------------------------
\* C3: a run of pdf_parse_main that fails has written neither
\* <name>_content.json nor <name>.md.
C3_NoPartialOutput ==
    \A i \in Threads :
        threads[i].result = "raised" => Writes(threads[i]) = << >>

-----------------------------------------------------------------------------
\* C4: a successful run writes exactly one JSON content file whatever the
\* flag, and exactly one Markdown file if and only if the flag is set, both
\* directly under <output_dir>/<doc_name>/.
C4_JsonWhateverFlag ==
    \A i \in Threads :
        threads[i].result = "returned" =>
            /\ Len(Written(threads[i], "json")) = 1
            /\ (Len(Written(threads[i], "md")) = 1) <=> threads[i].is_json_md_dump
            /\ \A k \in DOMAIN Writes(threads[i]) :
                   Under(Writes(threads[i])[k].path, DocDir(threads[i]))

-----------------------------------------------------------------------------
\* C5 as claimed: every dispatched job eventually clears the in-flight flag
\* and stops the progress bar.
C5_AlwaysCleared == processing ~> (~processing /\ ~progress)

\* C5 as amended: every dispatched job eventually clears the in-flight flag
\* and stops the progress bar, unless the user closes the window and confirms
\* the quit prompt while the job is in flight, which ends the program with the
\* job; the flag is never left set with no job running behind an open window;
\* and whenever the flag is clear and the form is valid, a Process click starts
\* a job.
C5_ClearedOrQuit ==
    /\ processing ~> ((~processing /\ ~progress) \/ destroyed)
    /\ []((processing /\ ~destroyed) => ActiveThreads # {})
    /\ [](( /\ ~processing /\ CanInteract
            /\ ValidateInputs(input_path, output_path, start_page, end_page) = "ok")
          => ENABLED (process_pdf /\ processing'))

\* A second job was dispatched after the first one completed.
C5_Witness ==
    /\ processing
    /\ status = StatusComplete
    /\ \E i \in Threads : threads[i].pc = "set_status"

-----------------------------------------------------------------------------
\* C6 as claimed: a job is dispatched only if both paths are non-empty and, if
\* either page field is non-empty, both fields parse as non-negative integers
\* with start <= end.
C6_BothFieldsParse ==
    [][ThreadStarted =>
          /\ input_path # << >> /\ output_path # << >>
          /\ (start_page # << >> \/ end_page # << >>) =>
                /\ NonNegative(start_page) /\ NonNegative(end_page)
                /\ PyIntVal(start_page) <= PyIntVal(end_page)]_vars

\* What validation asks of the page fields: each non-empty one parses as a
\* non-negative integer, and start <= end when both are non-empty.
PagesAccepted(sp, ep) ==
    /\ sp # << >> => NonNegative(sp)
    /\ ep # << >> => NonNegative(ep)
    /\ (sp # << >> /\ ep # << >>) => PyIntVal(sp) <= PyIntVal(ep)

FormAccepted(ip, op, sp, ep) == ip # << >> /\ op # << >> /\ PagesAccepted(sp, ep)

\* validate_inputs on every pair of page texts: accepted exactly when
\* PagesAccepted, the out-of-order error exactly for two non-negative integers
\* with start > end, the page-number error for the rest.
C6_Validation ==
    /\ \A ip \in InputPaths, op \in OutputPaths, sp \in PageTexts, ep \in PageTexts :
         LET v == ValidateInputs(ip, op, sp, ep)
         IN /\ (v = "ok") <=> FormAccepted(ip, op, sp, ep)
            /\ (v = MsgOrder) <=>
                 /\ ip # << >> /\ op # << >>
                 /\ sp # << >> /\ ep # << >>
                 /\ NonNegative(sp) /\ NonNegative(ep)
                 /\ PyIntVal(sp) > PyIntVal(ep)
            /\ (v = MsgNumbers) =>
                 \/ (sp # << >> /\ ~NonNegative(sp))
                 \/ (ep # << >> /\ ~NonNegative(ep))
    /\ ValidateInputs(ReportPdf, OutDir, <<"0">>, <<"0">>) = "ok"
    /\ ValidateInputs(ReportPdf, OutDir, <<"5">>, <<"2">>) = MsgOrder
    /\ ValidateInputs(ReportPdf, OutDir, <<"x">>, <<"2">>) = MsgNumbers
    /\ ValidateInputs(ReportPdf, OutDir, <<"2">>, <<"x">>) = MsgNumbers
    /\ MsgNumbers # MsgOrder
    /\ ValidateInputs(NoText, OutDir, NoText, NoText) = MsgNoInput

\* C6 as amended: a Process action dispatches a job only if the source path
\* and the output directory are non-empty, each non-empty page-range field
\* parses as a non-negative integer, and start <= end when both are non-empty
\* (0/0 accepted, 5/2 rejected, non-numeric input rejected with another error
\* than the out-of-order one).  A rejected Process action shows the error,
\* starts no job, leaves the in-flight flag and every job's file I/O as they were.
C6_DispatchOnlyIfValid ==
    /\ []C6_Validation
    /\ [][ThreadStarted =>
            FormAccepted(input_path, output_path, start_page, end_page)]_vars
    /\ [][(dialog = "none" /\ dialog' \in ValidationMsgs) =>
            /\ ~FormAccepted(input_path, output_path, start_page, end_page)
            /\ dialog' = ValidateInputs(input_path, output_path, start_page, end_page)
            /\ threads' = threads
            /\ processing' = processing]_vars
    /\ [][(~FormAccepted(input_path, output_path, start_page, end_page)) =>
            ~ThreadStarted]_vars

\* A job was dispatched with only the start page given.
C6_Witness ==
    /\ start_page = <<"5">> /\ end_page = NoText
    /\ \E i \in Threads : threads[i].pc = "set_status"

-----------------------------------------------------------------------------
\* C7: the success status and the success box appear only when
\* pdf_parse_main returned, with both artifacts written; whenever it raised
\* the thread goes on to the error status and the error box showing the
\* error, never to the success path (the window still being there).
C7_OutcomeState ==
    \A i \in Threads :
        LET t == threads[i]
        IN /\ t.pc \in {"set_complete", "showinfo"} =>
                (t.result = "returned" /\ t.error = "none")
           /\ t.pc = "set_complete" =>
                (Len(Written(t, "json")) = 1 /\ Len(Written(t, "md")) = 1)
           /\ (Alive /\ t.pc = "showinfo") => status = StatusComplete
           /\ (t.caller = "gui" /\ t.result = "raised") =>
                /\ t.pc \in {"set_error", "showerror", "progress_stop", "clear"}
                /\ t.error # "none"
           /\ t.pc = "showerror" => t.error # "none"
           /\ (Alive /\ t.pc = "showerror") => status = StatusError

\* C7: C7_OutcomeState in every state; the success status is set only for a
\* call that returned, and a call that raised is followed by the error status
\* and the error box.
C7_OutcomeMatches ==
    /\ []C7_OutcomeState
    /\ [][(status' = StatusComplete /\ status # StatusComplete) =>
            \E i \in Threads : threads[i].result = "returned"]_vars
    /\ [][\A i \in Threads :
            (threads[i].result = "raised" /\ threads[i].pc = "set_error"
             /\ threads'[i] # threads[i] /\ ~destroyed') =>
                (status' = StatusError /\ threads'[i].pc = "showerror")]_vars

\* The error status is about to be set for a run that failed after writing
\* the JSON file.
C7_Witness ==
    \E i \in Threads :
        /\ threads[i].pc = "set_error"
        /\ threads[i].result = "raised"
        /\ Len(Written(threads[i], "json")) = 1

-----------------------------------------------------------------------------
\* C8: with the in-flight flag set the window is destroyed only from the quit
\* prompt, which a declined answer closes leaving the window, the flag and the
\* job as they were; with the flag clear a close request destroys the window
\* at once, and no prompt opens.
C8_CloseProtocol ==
    /\ [][(~destroyed /\ destroyed') =>
            (dialog = MsgQuit \/ (~processing /\ dialog = "none"))]_vars
    /\ [][(processing /\ dialog # MsgQuit) => ~destroyed']_vars
    /\ [][(dialog # MsgQuit /\ dialog' = MsgQuit) => (processing /\ ~destroyed')]_vars
    /\ [][(dialog = MsgQuit /\ dialog' # MsgQuit /\ ~destroyed') =>
            (threads' = threads /\ processing' = processing /\ form' = form)]_vars
    /\ []((~processing /\ CanInteract) => ENABLED (on_closing /\ destroyed'))
    /\ []((processing /\ CanInteract) => ENABLED (on_closing /\ dialog' = MsgQuit))

\* The window was destroyed with a job in flight.
C8_Witness == destroyed /\ processing /\ \E i \in Threads : threads[i].pc = "killed"

-----------------------------------------------------------------------------
\* C9: within one run the pipeline calls happen in the fixed order, each at
\* most once, each only after every earlier one succeeded; a failed call is
\* the last one of its run.
C9_StageOrder ==
    \A i \in Threads :
        LET st == threads[i].stages
        IN /\ Len(st) <= Len(Stages)
           /\ \A k \in DOMAIN st :
                /\ st[k].name = Stages[k]
                /\ k < Len(st) => st[k].ok
           /\ (st # << >> /\ ~st[Len(st)].ok) =>
                /\ threads[i].pc \notin OrchPcs
                /\ threads[i].result = "raised"
           /\ threads[i].pc \in {"analyze", "parse", "mk_uni_format", "dump_json"} =>
                (st # << >> /\ st[Len(st)].ok)

\* A run that ended when its second pipeline call failed.
C9_Witness ==
    \E i \in Threads :
        /\ threads[i].pc = "done"
        /\ Len(threads[i].stages) = 2
        /\ ~threads[i].stages[2].ok

-----------------------------------------------------------------------------
\* C10: what the job thread passes to pdf_parse_main passed validation: the
\* source path and the output directory are non-empty, the page range is one
\* validation accepts, and the page-number conversion in the thread never
\* fails.
C10_RequestValidated ==
    \A i \in Threads :
        /\ threads[i].error # ErrInt
        /\ threads[i].pc = "invoke" =>
             /\ threads[i].pdf_path # << >>
             /\ threads[i].output_dir # << >>
        /\ threads[i].pc = "arg_pdf_path" =>
             /\ \A k \in DOMAIN threads[i].start : threads[i].start[k] >= 0
             /\ \A k \in DOMAIN threads[i].end : threads[i].end[k] >= 0
             /\ (threads[i].start # << >> /\ threads[i].end # << >>) =>
                    threads[i].start[1] <= threads[i].end[1]

====
